---- MODULE Spec2Model ----
(***************************************************************************)
(* Model of ArchiveServiceImpl (export / import orchestration over RxJS    *)
(* streams).  One call of export(...) or import(...) is followed from the  *)
(* call itself (where the arguments of concat(...) are evaluated) through  *)
(* the subscription and every asynchronous completion of a collaborator    *)
(* (fileService, zipService, telemetryService, the per-type delegates).    *)
(***************************************************************************)
EXTENDS Integers, Sequences, FiniteSets, TLC

\* ------------------------------------------------------------------ bounds
MaxObjects == 2
MaxItems == 2

\* ------------------------------------------------------------- vocabulary
ObjectTypes == {"TELEMETRY", "CONTENT", "PROFILE"}
ARCHIVE_ID == "sunbird.data.archive"
ARCHIVE_VERSION == "1.0"

SeqsUpTo(S, n) == UNION {[1..k -> S] : k \in 0..n}

Requests == SeqsUpTo(ObjectTypes, MaxObjects)

HasKey(o, k) == k \in DOMAIN o

\* ------------------------------------------- Map<ArchiveObjectType, ...>
\* A JavaScript Map keeps its keys in the order of their first insertion;
\* set() on an existing key replaces the value in place.
EmptyMap == <<>>
MapHas(m, k) == \E i \in 1..Len(m) : m[i].key = k
MapGet(m, k) == m[CHOOSE i \in 1..Len(m) : m[i].key = k].value
MapSet(m, k, v) ==
    IF MapHas(m, k)
    THEN [i \in 1..Len(m) |-> IF m[i].key = k THEN [key |-> k, value |-> v] ELSE m[i]]
    ELSE Append(m, [key |-> k, value |-> v])
MapKeys(m) == {m[i].key : i \in 1..Len(m)}

RECURSIVE ReduceToMap(_, _)
ReduceToMap(results, acc) ==
    IF results = <<>> THEN acc
    ELSE ReduceToMap(Tail(results), MapSet(acc, Head(results).type, Head(results).progress))

reduceObjectProgressToArchiveObjectExportProgress(results) == ReduceToMap(results, EmptyMap)

reduceObjectProgressToArchiveObjectImportProgress(results) == ReduceToMap(results, EmptyMap)

\* ------------------------------------------------------------------ state
VARIABLES
    op,               \* "none" | "export" | "import": the method that was called
    objects,          \* exportRequest.objects / importRequest.objects (types)
    stream,           \* the observable returned: "none" | "throwError" | "concat"
    pc,               \* where the pipeline stands
    createDir,        \* the promise of fileService.createDir(workspacePath)
    io,               \* the calls made on the collaborators, in order
    delegates,        \* the per-object delegate streams of the fan-out
    lastResult,       \* the closure variable lastResult
    completeSnapshot, \* the argument of of(...) built when import() is called
    container,        \* the container file handled by import / made by export
    workspaceManifest,\* manifest.json in the workspace
    tasks,            \* the task of every snapshot the subscriber received
    emitted,          \* the last snapshot the subscriber received
    terminal,         \* the terminal notification the subscriber received
    roundTrip,        \* the import reads the container the export just made
    handlerPc,        \* DeleteProfileDataHandler: where delete(uid) stands
    uid,              \* the argument of delete(uid)
    db,               \* the calls made on dbService, in order
    deletes,          \* the eleven observables handed to zip
    results,          \* the booleans the subscriber of delete(uid) received
    handlerTerminal   \* "none" | "complete" | "error": how that stream ended

archive == <<op, objects, stream, pc, createDir, io, delegates, lastResult,
             completeSnapshot, container, workspaceManifest, tasks, emitted,
             terminal, roundTrip>>

subscriber == <<tasks, emitted, terminal>>
handler == <<handlerPc, uid, db, deletes, results, handlerTerminal>>
vars == <<archive, handler>>

Undefined == [task |-> "undefined"]
IsUndefined(r) == r.task = "undefined"

NoFile == [kind |-> "absent"]
NoTerminal == [kind |-> "none"]

Init ==
    /\ op = "none"
    /\ objects = <<>>
    /\ stream = "none"
    /\ pc = "idle"
    /\ createDir = "none"
    /\ io = <<>>
    /\ delegates = <<>>
    /\ lastResult = Undefined
    /\ completeSnapshot = Undefined
    /\ container = NoFile
    /\ workspaceManifest = NoFile
    /\ tasks = <<>>
    /\ emitted = Undefined
    /\ terminal = NoTerminal
    /\ roundTrip = FALSE
    /\ handlerPc = "idle"
    /\ uid = ""
    /\ db = <<>>
    /\ deletes = <<>>
    /\ results = <<>>
    /\ handlerTerminal = "none"

\* ------------------------------------------------------------- subscriber
ErrorEvent(name, message) == [kind |-> "error", name |-> name, message |-> message]
CompleteEvent == [kind |-> "complete"]

\* observer.next(snapshot)
Emit(snapshot) ==
    /\ tasks' = Append(tasks, snapshot.task)
    /\ emitted' = snapshot
    /\ UNCHANGED terminal

\* observer.error(e)
Fail(e) ==
    /\ terminal' = e
    /\ UNCHANGED <<tasks, emitted>>

\* observer.next(snapshot); observer.complete()
EmitAndComplete(snapshot) ==
    /\ tasks' = Append(tasks, snapshot.task)
    /\ emitted' = snapshot
    /\ terminal' = CompleteEvent

\* export that checks the requested types itself and throws to the caller
\* before any observable is built.
ExportThrows(exportRequest) ==
    /\ pc = "idle"
    /\ op' = "export"
    /\ objects' = exportRequest
    /\ IF \E i \in 1..Len(exportRequest) : exportRequest[i] # "TELEMETRY"
       THEN /\ pc' = "thrown"
            /\ UNCHANGED <<stream, createDir, io>>
       ELSE /\ pc' = "returned"
            /\ IF Len(exportRequest) = 0
               THEN /\ stream' = "throwError"
                    /\ UNCHANGED <<createDir, io>>
               ELSE /\ stream' = "concat"
                    /\ createDir' = "pending"
                    /\ io' = Append(io, "createDir")
    /\ UNCHANGED <<delegates, lastResult, completeSnapshot, container,
                   workspaceManifest, subscriber, roundTrip>>
    /\ UNCHANGED handler

\* --------------------------------------------------------------- export()
\* export(exportRequest): the empty request returns throwError(...) before
\* concat(...) is built; otherwise building concat(...) evaluates its first
\* argument, which calls fileService.createDir at once.
Export(exportRequest) ==
    /\ pc = "idle"
    /\ op' = "export"
    /\ objects' = exportRequest
    /\ pc' = "returned"
    /\ IF Len(exportRequest) = 0
       THEN /\ stream' = "throwError"
            /\ UNCHANGED <<createDir, io>>
       ELSE /\ stream' = "concat"
            /\ createDir' = "pending"
            /\ io' = Append(io, "createDir")
    /\ UNCHANGED <<delegates, lastResult, completeSnapshot, container,
                   workspaceManifest, subscriber, roundTrip>>
    /\ UNCHANGED handler

\* The subscriber subscribes to the returned observable.  throwError
\* delivers its error; concat subscribes to its first argument: export waits
\* on from(createDir promise), import's defer calls extractZipArchive, which
\* calls zipService.unzip.
Subscribe ==
    /\ pc = "returned"
    /\ IF stream = "throwError"
       THEN /\ Fail(ErrorEvent("InvalidRequestError", "No archive objects to export"))
            /\ pc' = "done"
            /\ UNCHANGED io
       ELSE IF op = "export"
       THEN /\ pc' = "createDirWait"
            /\ UNCHANGED <<subscriber, io>>
       ELSE /\ pc' = "unzip"
            /\ io' = Append(io, "unzip")
            /\ UNCHANGED subscriber
    /\ UNCHANGED <<op, objects, stream, createDir, delegates, lastResult,
                   completeSnapshot, container, workspaceManifest, roundTrip>>
    /\ UNCHANGED handler

\* fileService.createDir settles (the file system's answer).
CreateDirSettle(ok) ==
    /\ createDir = "pending"
    /\ createDir' = IF ok THEN "resolved" ELSE "rejected"
    /\ UNCHANGED <<op, objects, stream, pc, io, delegates, lastResult,
                   completeSnapshot, container, workspaceManifest, subscriber, roundTrip>>
    /\ UNCHANGED handler

\* from(createDir promise) delivers the rejection to the subscriber.
CreateDirRejected ==
    /\ pc = "createDirWait"
    /\ createDir = "rejected"
    /\ Fail(ErrorEvent("FileError", "createDir failed"))
    /\ pc' = "done"
    /\ UNCHANGED <<op, objects, stream, createDir, io, delegates, lastResult,
                   completeSnapshot, container, workspaceManifest, roundTrip>>
    /\ UNCHANGED handler

\* ------------------------------------------------------------- delegates
\* What a TelemetryExportDelegate will report as completed, as a whole:
\* {file, contentEncoding}, possibly carrying the delegate's objectType too.
ExportItem(f, tagged, type) ==
    IF tagged THEN [file |-> f, contentEncoding |-> "gzip", objectType |-> type]
    ELSE [file |-> f, contentEncoding |-> "gzip"]

\* The file the delegate of the i-th requested object writes as its k-th.
FileName(i, k) == 10 * i + k

\* The completed lists the delegate of the i-th object may end with; tagged:
\* whether this build's delegate puts objectType on its items.
ExportPlans(i, type, tagged) ==
    {[k \in 1..n |-> ExportItem(FileName(i, k), tagged, type)] : n \in 0..MaxItems}

Delegate(type, items) == [type |-> type, state |-> "running", items |-> items, has |-> FALSE, n |-> 0]

\* The latest progress a delegate has emitted.
ExportProgressOf(d) ==
    [task |-> IF d.n = Len(d.items) THEN "EXPORTED" ELSE "EXPORTING",
     completed |-> SubSeq(d.items, 1, d.n)]

ImportProgressOf(d) ==
    [task |-> IF d.n = Len(d.items) THEN "IMPORTED" ELSE "IMPORTING",
     pending |-> SubSeq(d.items, d.n + 1, Len(d.items)),
     applied |-> SubSeq(d.items, 1, d.n)]

ProgressOf(d) == IF op = "export" THEN ExportProgressOf(d) ELSE ImportProgressOf(d)

\* The index of the first requested object whose case throws, or 0.
FirstUnimplemented(objs) ==
    IF \E i \in 1..Len(objs) : objs[i] # "TELEMETRY"
    THEN CHOOSE i \in 1..Len(objs) :
            /\ objs[i] # "TELEMETRY"
            /\ \A j \in 1..(i - 1) : objs[j] = "TELEMETRY"
    ELSE 0

\* ExportDispatch that does not wait for the createDir promise: the
\* delegates are created as soon as the stream is subscribed.
ExportDispatchDoesNotWait ==
    /\ op = "export"
    /\ pc = "createDirWait"
    /\ createDir \in {"pending", "resolved"}
    /\ LET bad == FirstUnimplemented(objects) IN
       IF bad # 0
       THEN /\ delegates' = [i \in 1..(bad - 1) |->
                                [Delegate(objects[i], <<>>) EXCEPT !.state = "created"]]
            /\ io' = io \o [i \in 1..(bad - 1) |-> "delegate.export"]
            /\ Fail(ErrorEvent("Error", "To be implemented"))
            /\ pc' = "done"
       ELSE /\ \E tagged \in BOOLEAN :
                \E plans \in [1..Len(objects) -> UNION {ExportPlans(i, "TELEMETRY", tagged) : i \in 1..Len(objects)}] :
                    /\ \A i \in 1..Len(objects) : plans[i] \in ExportPlans(i, "TELEMETRY", tagged)
                    /\ delegates' = [i \in 1..Len(objects) |-> Delegate(objects[i], plans[i])]
            /\ io' = io \o [i \in 1..Len(objects) |-> "delegate.export"]
            /\ pc' = "fanout"
            /\ UNCHANGED subscriber
    /\ UNCHANGED <<op, objects, stream, createDir, lastResult, completeSnapshot,
                   container, workspaceManifest, roundTrip>>
    /\ UNCHANGED handler

\* concatMap's project function of export: exportRequest.objects.map(...)
\* creates the delegates in request order; a CONTENT or PROFILE object throws
\* Error('To be implemented') out of map, which concatMap turns into the
\* stream's error.  Otherwise combineLatest subscribes to every delegate.
ExportDispatch ==
    /\ op = "export"
    /\ pc = "createDirWait"
    /\ createDir = "resolved"
    /\ LET bad == FirstUnimplemented(objects) IN
       IF bad # 0
       THEN /\ delegates' = [i \in 1..(bad - 1) |->
                                [Delegate(objects[i], <<>>) EXCEPT !.state = "created"]]
            /\ io' = io \o [i \in 1..(bad - 1) |-> "delegate.export"]
            /\ Fail(ErrorEvent("Error", "To be implemented"))
            /\ pc' = "done"
       ELSE /\ \E tagged \in BOOLEAN :
                \E plans \in [1..Len(objects) -> UNION {ExportPlans(i, "TELEMETRY", tagged) : i \in 1..Len(objects)}] :
                    /\ \A i \in 1..Len(objects) : plans[i] \in ExportPlans(i, "TELEMETRY", tagged)
                    /\ delegates' = [i \in 1..Len(objects) |-> Delegate(objects[i], plans[i])]
            /\ io' = io \o [i \in 1..Len(objects) |-> "delegate.export"]
            /\ pc' = "fanout"
            /\ UNCHANGED subscriber
    /\ UNCHANGED <<op, objects, stream, createDir, lastResult, completeSnapshot,
                   container, workspaceManifest, roundTrip>>
    /\ UNCHANGED handler

\* combineLatest's value: the latest progress of every delegate, in request
\* order, each mapped to {type, progress}.
Results(ds) == [i \in 1..Len(ds) |-> [type |-> ds[i].type, progress |-> ProgressOf(ds[i])]]

\* map(...) after concatMap: the BUILDING / IMPORTING snapshot.
FanoutSnapshot(ds) ==
    IF op = "export"
    THEN [task |-> "BUILDING",
          progress |-> reduceObjectProgressToArchiveObjectExportProgress(Results(ds))]
    ELSE [task |-> "IMPORTING",
          progress |-> reduceObjectProgressToArchiveObjectImportProgress(Results(ds))]

\* combineLatest emits once every source has emitted at least once.
AllHaveEmitted(ds) == \A i \in 1..Len(ds) : ds[i].has

\* A delegate emits a progress value (k items done so far): its terminal one
\* (all its items), before which it may have reported progress once.
\* combineLatest emits when every delegate has a value, map builds the
\* snapshot and tap stores it in lastResult.
DelegateEmit(i, k) ==
    /\ pc = "fanout"
    /\ i \in 1..Len(delegates)
    /\ delegates[i].state = "running"
    /\ k \in 0..Len(delegates[i].items)
    /\ delegates[i].has => (delegates[i].n < k /\ k = Len(delegates[i].items))
    /\ LET ds == [delegates EXCEPT ![i].has = TRUE, ![i].n = k] IN
       /\ delegates' = ds
       /\ IF AllHaveEmitted(ds)
          THEN /\ lastResult' = FanoutSnapshot(ds)
               /\ Emit(FanoutSnapshot(ds))
          ELSE UNCHANGED <<lastResult, subscriber>>
    /\ UNCHANGED <<op, objects, stream, pc, createDir, io, completeSnapshot,
                   container, workspaceManifest, roundTrip>>
    /\ UNCHANGED handler

\* DelegateError of a fan-out that holds the error back until the siblings
\* have finished: nothing is delivered and nobody is unsubscribed.
DelegateErrorWaits(i) ==
    /\ pc = "fanout"
    /\ i \in 1..Len(delegates)
    /\ delegates[i].state = "running"
    /\ delegates' = [delegates EXCEPT ![i].state = "errored"]
    /\ UNCHANGED <<op, objects, stream, pc, createDir, io, lastResult, completeSnapshot,
                   container, workspaceManifest, subscriber, roundTrip>>
    /\ UNCHANGED handler

\* A delegate stream fails: combineLatest fails and unsubscribes the others.
DelegateError(i) ==
    /\ pc = "fanout"
    /\ i \in 1..Len(delegates)
    /\ delegates[i].state = "running"
    /\ delegates' = [j \in 1..Len(delegates) |->
                        IF j = i THEN [delegates[j] EXCEPT !.state = "errored"]
                        ELSE IF delegates[j].state = "running"
                             THEN [delegates[j] EXCEPT !.state = "unsubscribed"]
                             ELSE delegates[j]]
    /\ Fail(ErrorEvent("DelegateError", "delegate failed"))
    /\ pc' = "done"
    /\ UNCHANGED <<op, objects, stream, createDir, io, lastResult, completeSnapshot,
                   container, workspaceManifest, roundTrip>>
    /\ UNCHANGED handler

\* A delegate that combineLatest has unsubscribed from is not thereby
\* stopped: it may go on and report progress, which reaches no one.
DelegateWorksOn(i) ==
    /\ i \in 1..Len(delegates)
    /\ delegates[i].state = "unsubscribed"
    /\ ~(delegates[i].has /\ delegates[i].n = Len(delegates[i].items))
    /\ delegates' = [delegates EXCEPT ![i].has = TRUE, ![i].n = Len(delegates[i].items)]
    /\ UNCHANGED <<op, objects, stream, pc, createDir, io, lastResult, completeSnapshot,
                   container, workspaceManifest, subscriber, roundTrip>>
    /\ UNCHANGED handler

\* ------------------------------------------------------------- manifest
\* {...r, k: v, ...}: the object spread with overriding fields.
Spread(r, over) ==
    [k \in (DOMAIN r) \cup (DOMAIN over) |-> IF k \in DOMAIN over THEN over[k] ELSE r[k]]

\* JSON.stringify gives a text; JSON.parse gives the value back or throws on
\* a text that is not JSON.  (No field of the values below holds undefined,
\* so stringify drops nothing; a missing field stays missing.)
JsonStringify(v) == [kind |-> "json", value |-> v]
JsonParses(text) == text.kind = "json"
JsonParse(text) == text.value

RECURSIVE FlattenEntries(_)
FlattenEntries(entries) ==
    IF entries = <<>> THEN <<>>
    ELSE Head(entries).value.completed \o FlattenEntries(Tail(entries))

\* Array.from(progress.entries()).reduce((acc, [type, p]) => acc.concat(p.completed), [])
flattenedItems(progress) == FlattenEntries(progress)

\* The object handed to JSON.stringify in generateManifestFile.
ArchiveManifest(progress, producerData) ==
    [id |-> ARCHIVE_ID,
     ver |-> ARCHIVE_VERSION,
     ts |-> "ts",
     producer |-> producerData,
     archive |-> [count |-> Len(flattenedItems(progress)),
                  items |-> flattenedItems(progress)]]

zipFilePath == "archive-ts.zip"

\* A delegate stream completes.  When it is the last one, combineLatest
\* completes and concat subscribes to the next stage: export's defer calls
\* generateManifestFile(lastResult!), whose parameter destructuring throws a
\* TypeError on undefined and otherwise calls telemetryService.buildContext;
\* import's of(...) emits the snapshot that was built when import() was
\* called, and the stream completes.
DelegateComplete(i) ==
    /\ pc = "fanout"
    /\ i \in 1..Len(delegates)
    /\ delegates[i].state = "running"
    /\ ~delegates[i].has \/ delegates[i].n = Len(delegates[i].items)
    /\ LET ds == [delegates EXCEPT ![i].state = "completed"] IN
       /\ delegates' = ds
       /\ IF \E j \in 1..Len(ds) : ds[j].state = "running"
          THEN UNCHANGED <<pc, io, subscriber>>
          ELSE IF op = "import"
          THEN /\ EmitAndComplete(completeSnapshot)
               /\ pc' = "done"
               /\ UNCHANGED io
          ELSE IF IsUndefined(lastResult)
          THEN /\ Fail(ErrorEvent("TypeError", "Cannot destructure property progress of undefined"))
               /\ pc' = "done"
               /\ UNCHANGED io
          ELSE /\ io' = Append(io, "buildContext")
               /\ pc' = "buildContext"
               /\ UNCHANGED subscriber
    /\ UNCHANGED <<op, objects, stream, createDir, lastResult, completeSnapshot,
                   container, workspaceManifest, roundTrip>>
    /\ UNCHANGED handler

\* BuildContextSettle whose failure path still goes on to write the manifest.
BuildContextSettleGoesOn(ok) ==
    /\ pc = "buildContext"
    /\ io' = Append(io, "writeFile")
    /\ pc' = "writeFile"
    /\ IF ok
       THEN UNCHANGED subscriber
       ELSE Fail(ErrorEvent("ContextError", "buildContext failed"))
    /\ UNCHANGED <<op, objects, stream, createDir, delegates, lastResult,
                   completeSnapshot, container, workspaceManifest, roundTrip>>
    /\ UNCHANGED handler

\* generateManifestFile: buildContext() emits the context; concatMap builds
\* the manifest and calls fileService.writeFile.
BuildContextSettle(ok) ==
    /\ pc = "buildContext"
    /\ IF ok
       THEN /\ io' = Append(io, "writeFile")
            /\ pc' = "writeFile"
            /\ UNCHANGED subscriber
       ELSE /\ Fail(ErrorEvent("ContextError", "buildContext failed"))
            /\ pc' = "done"
            /\ UNCHANGED io
    /\ UNCHANGED <<op, objects, stream, createDir, delegates, lastResult,
                   completeSnapshot, container, workspaceManifest, roundTrip>>
    /\ UNCHANGED handler

\* WriteFileSettle whose failure path still goes on to the pack stage: the
\* error is delivered and zipService.zip is called all the same.
WriteFileSettleGoesOn(ok) ==
    /\ pc = "writeFile"
    /\ io' = Append(io, "zip")
    /\ pc' = "zip"
    /\ IF ok
       THEN /\ workspaceManifest' = JsonStringify(ArchiveManifest(lastResult.progress, "pdata"))
            /\ Emit([progress |-> lastResult.progress, task |-> "BUILDING_MANIFEST"])
       ELSE /\ Fail(ErrorEvent("FileError", "writeFile failed"))
            /\ UNCHANGED workspaceManifest
    /\ UNCHANGED <<op, objects, stream, createDir, delegates, lastResult,
                   completeSnapshot, container, roundTrip>>
    /\ UNCHANGED handler

\* generateManifestFile: writeFile settles; mapTo emits BUILDING_MANIFEST and
\* the stage completes, so concat's defer calls generateZipArchive, which
\* calls zipService.zip.
WriteFileSettle(ok) ==
    /\ pc = "writeFile"
    /\ IF ok
       THEN /\ workspaceManifest' = JsonStringify(ArchiveManifest(lastResult.progress, "pdata"))
            /\ Emit([progress |-> lastResult.progress,
                                                   task |-> "BUILDING_MANIFEST"])
            /\ io' = Append(io, "zip")
            /\ pc' = "zip"
       ELSE /\ Fail(ErrorEvent("FileError", "writeFile failed"))
            /\ pc' = "done"
            /\ UNCHANGED <<workspaceManifest, io>>
    /\ UNCHANGED <<op, objects, stream, createDir, delegates, lastResult,
                   completeSnapshot, container, roundTrip>>
    /\ UNCHANGED handler

\* generateZipArchive: the zip callbacks; success emits COMPLETE with the
\* file path and completes.
ZipSettle(ok) ==
    /\ pc = "zip"
    /\ IF ok
       THEN /\ container' = workspaceManifest
            /\ EmitAndComplete(Spread(lastResult, [task |-> "COMPLETE", filePath |-> zipFilePath]))
       ELSE /\ Fail(ErrorEvent("ZipError", "zip failed"))
            /\ UNCHANGED container
    /\ pc' = "done"
    /\ UNCHANGED <<op, objects, stream, createDir, io, delegates, lastResult,
                   completeSnapshot, workspaceManifest, roundTrip>>
    /\ UNCHANGED handler

\* --------------------------------------------------------------- import()
\* The containers an import may be given: the manifest.json inside is
\* missing, is not JSON, lacks fields, or lists items of any type, some of
\* them without objectType or without file.
ManifestItem(type, f) ==
    [objectType |-> type, file |-> f, contentEncoding |-> "gzip", size |-> 1, explodedSize |-> 1]

ItemKinds == ObjectTypes \cup {"untyped", "nofile"}

\* The k-th item of an external manifest: of a type, or lacking a field.
ExternalItem(kind, k) ==
    IF kind = "untyped" THEN [file |-> k, contentEncoding |-> "gzip"]
    ELSE IF kind = "nofile" THEN [objectType |-> "TELEMETRY", contentEncoding |-> "gzip"]
    ELSE ManifestItem(kind, k)

\* Item lists of up to MaxItems items: TELEMETRY items and at most one item
\* of another kind among them.
ExternalItemSeqs ==
    {[k \in 1..Len(kinds) |-> ExternalItem(kinds[k], k)] :
        kinds \in {ks \in SeqsUpTo(ItemKinds, MaxItems) :
                     Cardinality({k \in 1..Len(ks) : ks[k] # "TELEMETRY"}) <= 1}}

ExternalManifest(items) ==
    [id |-> ARCHIVE_ID, ver |-> ARCHIVE_VERSION, ts |-> "ts", producer |-> "pdata",
     archive |-> [count |-> Len(items), items |-> items]]

ExternalContainers ==
    {NoFile, [kind |-> "garbage"],
     JsonStringify([id |-> ARCHIVE_ID, ver |-> ARCHIVE_VERSION]),
     JsonStringify([id |-> ARCHIVE_ID, archive |-> [count |-> 0]])}
        \cup {JsonStringify(ExternalManifest(items)) : items \in ExternalItemSeqs}

\* ImportCall with the emptiness check made after concat(...) was built, so
\* that createDir is called for an empty request too.
ImportCallChecksLate(importRequest, file, fromExport) ==
    /\ op' = "import"
    /\ objects' = importRequest
    /\ pc' = "returned"
    /\ roundTrip' = fromExport
    /\ delegates' = <<>>
    /\ tasks' = <<>>
    /\ emitted' = Undefined
    /\ terminal' = NoTerminal
    /\ workspaceManifest' = NoFile
    /\ createDir' = "pending"
    /\ io' = <<"createDir">>
    /\ IF Len(importRequest) = 0
       THEN /\ stream' = "throwError"
            /\ lastResult' = Undefined
            /\ completeSnapshot' = Undefined
            /\ container' = NoFile
       ELSE /\ stream' = "concat"
            /\ lastResult' = [task |-> "", progress |-> EmptyMap, filePath |-> "in.zip"]
            /\ completeSnapshot' = Spread(lastResult', [task |-> "COMPLETE"])
            /\ container' = file
    /\ UNCHANGED handler

\* import(importRequest) once the request is known to be non-empty or not:
\* lastResult gets its initial value, and building concat(...) evaluates
\* from(this.fileService.createDir(...)) and of({...lastResult, task:
\* 'COMPLETE'}) at once.  The Map of the initial lastResult is one object
\* shared by lastResult and by the of(...) snapshot.
ImportCall(importRequest, file, fromExport) ==
    /\ op' = "import"
    /\ objects' = importRequest
    /\ pc' = "returned"
    /\ roundTrip' = fromExport
    /\ delegates' = <<>>
    /\ tasks' = <<>>
    /\ emitted' = Undefined
    /\ terminal' = NoTerminal
    /\ workspaceManifest' = NoFile
    /\ IF Len(importRequest) = 0
       THEN /\ stream' = "throwError"
            /\ createDir' = "none"
            /\ io' = <<>>
            /\ lastResult' = Undefined
            /\ completeSnapshot' = Undefined
            /\ container' = NoFile
       ELSE /\ stream' = "concat"
            /\ lastResult' = [task |-> "", progress |-> EmptyMap, filePath |-> "in.zip"]
            /\ completeSnapshot' = Spread(lastResult', [task |-> "COMPLETE"])
            /\ createDir' = "pending"
            /\ io' = <<"createDir">>
            /\ container' = file
    /\ UNCHANGED handler

\* import(...) of some container file.
Import(importRequest, file) ==
    /\ pc = "idle"
    /\ ImportCall(importRequest, file, FALSE)

\* import(...) of the container a successful export has just produced, with
\* the same requested types.
ImportExported ==
    /\ pc = "done"
    /\ op = "export"
    /\ terminal = CompleteEvent
    /\ ImportCall(objects, container, TRUE)

\* UnzipSettle whose failure path still goes on to read the manifest.
UnzipSettleGoesOn(ok) ==
    /\ pc = "unzip"
    /\ io' = Append(io, "readAsText")
    /\ pc' = "readAsText"
    /\ IF ok
       THEN /\ workspaceManifest' = container
            /\ Emit(Spread(lastResult, [task |-> "EXTRACTING"]))
       ELSE /\ Fail(ErrorEvent("ZipError", "unzip failed"))
            /\ UNCHANGED workspaceManifest
    /\ UNCHANGED <<op, objects, stream, createDir, delegates, lastResult,
                   completeSnapshot, container, roundTrip>>
    /\ UNCHANGED handler

\* extractZipArchive: the unzip callbacks; success emits EXTRACTING (the
\* spread of the progress it was given) and completes, so concat's defer
\* calls readManifestFile, which calls fileService.readAsText.
UnzipSettle(ok) ==
    /\ pc = "unzip"
    /\ IF ok
       THEN /\ workspaceManifest' = container
            /\ Emit(Spread(lastResult, [task |-> "EXTRACTING"]))
            /\ io' = Append(io, "readAsText")
            /\ pc' = "readAsText"
       ELSE /\ Fail(ErrorEvent("ZipError", "unzip failed"))
            /\ pc' = "done"
            /\ UNCHANGED <<workspaceManifest, io>>
    /\ UNCHANGED <<op, objects, stream, createDir, delegates, lastResult,
                   completeSnapshot, container, roundTrip>>
    /\ UNCHANGED handler

\* readManifestProgress that passes over a type without items instead of
\* throwing.
RECURSIVE readManifestProgressSkipsEmpty(_, _, _)
readManifestProgressSkipsEmpty(manifest, progress, objectTypes) ==
    IF objectTypes = <<>> THEN [error |-> "none", progress |-> progress]
    ELSE IF ~HasKey(manifest, "archive") THEN [error |-> "TypeError", progress |-> progress]
    ELSE IF ~HasKey(manifest.archive, "items") THEN [error |-> "TypeError", progress |-> progress]
    ELSE LET type == Head(objectTypes)
             items == SelectSeq(manifest.archive.items,
                                LAMBDA it : HasKey(it, "objectType") /\ it.objectType = type)
         IN readManifestProgressSkipsEmpty(manifest,
                IF Len(items) = 0 THEN progress
                ELSE MapSet(progress, type, [task |-> "INITIALISING", pending |-> items]),
                Tail(objectTypes))

\* objectTypes.forEach(...) of readManifestFile on the Map of importProgress:
\* manifest.archive.items throws a TypeError when archive or items is
\* missing; a type without items throws InvalidArchiveError; the types before
\* the throwing one have already been set in the Map.
RECURSIVE readManifestProgress(_, _, _)
readManifestProgress(manifest, progress, objectTypes) ==
    IF objectTypes = <<>> THEN [error |-> "none", progress |-> progress]
    ELSE IF ~HasKey(manifest, "archive") THEN [error |-> "TypeError", progress |-> progress]
    ELSE IF ~HasKey(manifest.archive, "items") THEN [error |-> "TypeError", progress |-> progress]
    ELSE LET type == Head(objectTypes)
             items == SelectSeq(manifest.archive.items,
                                LAMBDA it : HasKey(it, "objectType") /\ it.objectType = type)
         IN IF Len(items) = 0
            THEN [error |-> "InvalidArchiveError", progress |-> progress]
            ELSE readManifestProgress(manifest,
                                      MapSet(progress, type, [task |-> "INITIALISING", pending |-> items]),
                                      Tail(objectTypes))

ManifestErrorMessage(name) ==
    IF name = "InvalidArchiveError" THEN "Nothing to import"
    ELSE "Cannot read property of undefined"

\* readManifestFile: readAsText settles.  A missing file rejects; a text
\* that is not JSON gives InvalidArchiveError('Invalid manfiest.json');
\* otherwise the second map(...) fills the shared Map and emits VALIDATING,
\* the stage completes and concat subscribes to from(createDir promise).
ReadAsTextSettle ==
    /\ pc = "readAsText"
    /\ IF workspaceManifest = NoFile
       THEN /\ Fail(ErrorEvent("FileError", "readAsText failed"))
            /\ pc' = "done"
            /\ UNCHANGED <<lastResult, completeSnapshot>>
       ELSE IF ~JsonParses(workspaceManifest)
       THEN /\ Fail(ErrorEvent("InvalidArchiveError", "Invalid manfiest.json"))
            /\ pc' = "done"
            /\ UNCHANGED <<lastResult, completeSnapshot>>
       ELSE LET r == readManifestProgress(JsonParse(workspaceManifest), lastResult.progress, objects) IN
            /\ lastResult' = [lastResult EXCEPT !.progress = r.progress]
            /\ completeSnapshot' = [completeSnapshot EXCEPT !.progress = r.progress]
            /\ IF r.error = "none"
               THEN /\ Emit(Spread(lastResult, [progress |-> r.progress, task |-> "VALIDATING"]))
                    /\ pc' = "createDirWait"
               ELSE /\ Fail(ErrorEvent(r.error, ManifestErrorMessage(r.error)))
                    /\ pc' = "done"
    /\ UNCHANGED <<op, objects, stream, createDir, io, delegates, container,
                   workspaceManifest, roundTrip>>
    /\ UNCHANGED handler

\* ImportDispatch that hands every delegate the whole item list of the
\* manifest instead of the pending items of its type.
ImportDispatchPassesAll ==
    /\ op = "import"
    /\ pc = "createDirWait"
    /\ createDir = "resolved"
    /\ LET bad == FirstUnimplemented(objects)
           n == IF bad # 0 THEN bad - 1 ELSE Len(objects)
       IN
       IF n > 0 /\ ~MapHas(lastResult.progress, "TELEMETRY")
       THEN /\ Fail(ErrorEvent("TypeError", "Cannot read property pending of undefined"))
            /\ pc' = "done"
            /\ UNCHANGED <<delegates, io>>
       ELSE /\ delegates' = [i \in 1..n |->
                [Delegate(objects[i], JsonParse(workspaceManifest).archive.items)
                    EXCEPT !.state = IF bad # 0 THEN "created" ELSE "running"]]
            /\ io' = io \o [i \in 1..n |-> "delegate.import"]
            /\ IF bad # 0
               THEN /\ Fail(ErrorEvent("Error", "To be implemented"))
                    /\ pc' = "done"
               ELSE /\ pc' = "fanout"
                    /\ UNCHANGED subscriber
    /\ UNCHANGED <<op, objects, stream, createDir, lastResult, completeSnapshot,
                   container, workspaceManifest, roundTrip>>
    /\ UNCHANGED handler

\* concatMap's project function of import: importRequest.objects.map(...)
\* creates the delegates in request order, each TelemetryImportDelegate being
\* handed lastResult.progress.get(TELEMETRY)!.pending; a CONTENT or PROFILE
\* object throws Error('To be implemented').
ImportDispatch ==
    /\ op = "import"
    /\ pc = "createDirWait"
    /\ createDir = "resolved"
    /\ LET bad == FirstUnimplemented(objects)
           n == IF bad # 0 THEN bad - 1 ELSE Len(objects)
       IN
       IF n > 0 /\ ~MapHas(lastResult.progress, "TELEMETRY")
       THEN /\ Fail(ErrorEvent("TypeError", "Cannot read property pending of undefined"))
            /\ pc' = "done"
            /\ UNCHANGED <<delegates, io>>
       ELSE /\ delegates' = [i \in 1..n |->
                [Delegate(objects[i], MapGet(lastResult.progress, "TELEMETRY").pending)
                    EXCEPT !.state = IF bad # 0 THEN "created" ELSE "running"]]
            /\ io' = io \o [i \in 1..n |-> "delegate.import"]
            /\ IF bad # 0
               THEN /\ Fail(ErrorEvent("Error", "To be implemented"))
                    /\ pc' = "done"
               ELSE /\ pc' = "fanout"
                    /\ UNCHANGED subscriber
    /\ UNCHANGED <<op, objects, stream, createDir, lastResult, completeSnapshot,
                   container, workspaceManifest, roundTrip>>
    /\ UNCHANGED handler

\* ------------------------------------------------------------ unsubscribe
\* The stages of concat during which the subscriber may unsubscribe, and
\* those of them that have a call in flight on the file system or the packer.
Stages == {"createDirWait", "fanout", "buildContext", "writeFile", "zip", "unzip", "readAsText"}
InFlight == {"buildContext", "writeFile", "zip", "unzip", "readAsText"}

Unsubscribed(stage) ==
    CASE stage = "buildContext" -> "buildContext.unsubscribed"
      [] stage = "writeFile" -> "writeFile.unsubscribed"
      [] stage = "zip" -> "zip.unsubscribed"
      [] stage = "unzip" -> "unzip.unsubscribed"
      [] stage = "readAsText" -> "readAsText.unsubscribed"
      [] OTHER -> "unsubscribed"

\* The subscriber unsubscribes: concat unsubscribes from its current stage
\* and combineLatest from every delegate stream.  No stage has a teardown,
\* so a call in flight is not cancelled.
Unsubscribe ==
    /\ pc \in Stages
    /\ pc' = Unsubscribed(pc)
    /\ delegates' = [j \in 1..Len(delegates) |->
                        IF delegates[j].state = "running"
                        THEN [delegates[j] EXCEPT !.state = "unsubscribed"]
                        ELSE delegates[j]]
    /\ UNCHANGED <<op, objects, stream, createDir, io, lastResult, completeSnapshot,
                   container, workspaceManifest, subscriber, roundTrip>>
    /\ UNCHANGED handler

\* LateSettle that carries on with the next stage of concat although the
\* subscriber has gone.
LateSettleGoesOn(ok) ==
    /\ pc \in {Unsubscribed(stage) : stage \in InFlight}
    /\ pc' = "unsubscribed"
    /\ workspaceManifest' =
          IF ok /\ pc = "writeFile.unsubscribed"
          THEN JsonStringify(ArchiveManifest(lastResult.progress, "pdata"))
          ELSE IF ok /\ pc = "unzip.unsubscribed" THEN container
          ELSE workspaceManifest
    /\ container' = IF ok /\ pc = "zip.unsubscribed" THEN workspaceManifest ELSE container
    /\ io' = IF ~ok THEN io
             ELSE IF pc = "buildContext.unsubscribed" THEN Append(io, "writeFile")
             ELSE IF pc = "writeFile.unsubscribed" THEN Append(io, "zip")
             ELSE IF pc = "unzip.unsubscribed" THEN Append(io, "readAsText")
             ELSE io
    /\ UNCHANGED <<op, objects, stream, createDir, delegates, lastResult,
                   completeSnapshot, subscriber, roundTrip>>
    /\ UNCHANGED handler

\* The call that was in flight at the unsubscription settles: the file
\* system or the packer has done its work (writeFile has written the
\* manifest, zip the container, unzip the workspace), but the callback
\* reaches a closed subscriber: nothing is emitted and no stage follows.
LateSettle(ok) ==
    /\ pc \in {Unsubscribed(stage) : stage \in InFlight}
    /\ pc' = "unsubscribed"
    /\ workspaceManifest' =
          IF ok /\ pc = "writeFile.unsubscribed"
          THEN JsonStringify(ArchiveManifest(lastResult.progress, "pdata"))
          ELSE IF ok /\ pc = "unzip.unsubscribed" THEN container
          ELSE workspaceManifest
    /\ container' = IF ok /\ pc = "zip.unsubscribed" THEN workspaceManifest ELSE container
    /\ UNCHANGED <<op, objects, stream, createDir, io, delegates, lastResult,
                   completeSnapshot, subscriber, roundTrip>>
    /\ UNCHANGED handler

Next ==
    \/ \E r \in Requests : Export(r)
    \/ \E r \in Requests, file \in ExternalContainers : Import(r, file)
    \/ ImportExported
    \/ Subscribe
    \/ \E ok \in BOOLEAN : CreateDirSettle(ok)
    \/ CreateDirRejected
    \/ ExportDispatch
    \/ ImportDispatch
    \/ \E i \in 1..MaxObjects, k \in 0..MaxItems : DelegateEmit(i, k)
    \/ \E i \in 1..MaxObjects : DelegateError(i)
    \/ \E i \in 1..MaxObjects : DelegateWorksOn(i)
    \/ \E i \in 1..MaxObjects : DelegateComplete(i)
    \/ \E ok \in BOOLEAN : BuildContextSettle(ok)
    \/ \E ok \in BOOLEAN : WriteFileSettle(ok)
    \/ \E ok \in BOOLEAN : ZipSettle(ok)
    \/ \E ok \in BOOLEAN : UnzipSettle(ok)
    \/ ReadAsTextSettle
    \/ Unsubscribe
    \/ \E ok \in BOOLEAN : LateSettle(ok)

Spec == Init /\ [][Next]_vars

\* ------------------------------------------- DeleteProfileDataHandler
\* The eleven observables handed to zip(...): ten dbService.delete(...) on
\* the tables of these entries and one dbService.execute(...) on the
\* key-value store.
NumDeletes == 11
Operations ==
    <<"ProfileEntry", "ContentMarkerEntry", "ContentAccessEntry", "LearnerAssessmentsEntry",
      "LearnerSummaryEntry", "ContentFeedbackEntry", "SearchHistoryEntry", "GroupProfileEntry",
      "UserEntry", "PlayerConfigEntry", "KeyValueStoreEntry">>
Uids == {"uid1", "uid2"}

DbCall(i) == IF Operations[i] = "KeyValueStoreEntry" THEN "execute" ELSE "delete"
EndTransaction(isOperationSuccessful) ==
    IF isOperationSuccessful THEN "endTransaction(true)" ELSE "endTransaction(false)"

\* delete(uid) returns defer(...).pipe(...): nothing runs before subscription.
Delete(id) ==
    /\ handlerPc = "idle"
    /\ uid' = id
    /\ handlerPc' = "returned"
    /\ UNCHANGED <<db, deletes, results, handlerTerminal>>
    /\ UNCHANGED archive

\* Subscription: defer's factory calls beginTransaction; mergeMap's project
\* function builds zip(...), whose arguments are the eleven calls on
\* dbService, and zip subscribes to what they returned.
DeleteSubscribe ==
    /\ handlerPc = "returned"
    /\ db' = <<"beginTransaction">> \o [i \in 1..NumDeletes |-> DbCall(i)]
    /\ deletes' = [i \in 1..NumDeletes |-> "pending"]
    /\ handlerPc' = "zip"
    /\ UNCHANGED <<uid, results, handlerTerminal>>
    /\ UNCHANGED archive

\* DbSettle of a chain in which tap(endTransaction(true)) comes after
\* catchError: the false that catchError gives also passes through tap.
DbSettleTapsAfterCatch(i, ok) ==
    /\ handlerPc = "zip"
    /\ deletes[i] = "pending"
    /\ IF ok
       THEN LET ds == [deletes EXCEPT ![i] = "emitted"] IN
            /\ deletes' = ds
            /\ IF \A j \in 1..NumDeletes : ds[j] = "emitted"
               THEN /\ db' = Append(db, EndTransaction(TRUE))
                    /\ results' = Append(results, TRUE)
                    /\ handlerPc' = "emitted"
               ELSE UNCHANGED <<db, results, handlerPc>>
            /\ UNCHANGED handlerTerminal
       ELSE /\ deletes' = [j \in 1..NumDeletes |->
                              IF j = i THEN "failed"
                              ELSE IF deletes[j] = "pending" THEN "unsubscribed"
                              ELSE deletes[j]]
            /\ db' = db \o <<EndTransaction(FALSE), EndTransaction(TRUE)>>
            /\ results' = Append(results, FALSE)
            /\ handlerTerminal' = "complete"
            /\ handlerPc' = "done"
    /\ UNCHANGED uid
    /\ UNCHANGED archive

\* The i-th database operation settles.  It emits: zip has one more value,
\* and with all eleven it emits, mapTo gives true, tap calls
\* endTransaction(true) and the subscriber receives true.  It fails: zip
\* fails and unsubscribes the others, catchError calls endTransaction(false)
\* and of(false) gives false and completes.
DbSettle(i, ok) ==
    /\ handlerPc = "zip"
    /\ deletes[i] = "pending"
    /\ IF ok
       THEN LET ds == [deletes EXCEPT ![i] = "emitted"] IN
            /\ deletes' = ds
            /\ IF \A j \in 1..NumDeletes : ds[j] = "emitted"
               THEN /\ db' = Append(db, EndTransaction(TRUE))
                    /\ results' = Append(results, TRUE)
                    /\ handlerPc' = "emitted"
               ELSE UNCHANGED <<db, results, handlerPc>>
            /\ UNCHANGED handlerTerminal
       ELSE /\ deletes' = [j \in 1..NumDeletes |->
                              IF j = i THEN "failed"
                              ELSE IF deletes[j] = "pending" THEN "unsubscribed"
                              ELSE deletes[j]]
            /\ db' = Append(db, EndTransaction(FALSE))
            /\ results' = Append(results, FALSE)
            /\ handlerTerminal' = "complete"
            /\ handlerPc' = "done"
    /\ UNCHANGED uid
    /\ UNCHANGED archive

\* A database observable completes after its value: zip, whose buffers are
\* empty, completes, and so does the returned stream.
DeleteComplete ==
    /\ handlerPc = "emitted"
    /\ handlerTerminal' = "complete"
    /\ handlerPc' = "done"
    /\ UNCHANGED <<uid, db, deletes, results>>
    /\ UNCHANGED archive

NextDelete ==
    \/ \E id \in Uids : Delete(id)
    \/ DeleteSubscribe
    \/ \E i \in 1..NumDeletes, ok \in BOOLEAN : DbSettle(i, ok)
    \/ DeleteComplete

SpecDelete == Init /\ [][NextDelete]_vars

\* ----------------------------------------------------------------- claims
Range(f) == {f[i] : i \in DOMAIN f}
Requested == Range(objects)
Called(name) == name \in Range(io)
Ended == terminal # NoTerminal
Failed == terminal.kind = "error"
FailedWith(name) == Failed /\ terminal.name = name
Unimplemented == {"CONTENT", "PROFILE"}

\* readManifestFile has handled the text of manifest.json.
ManifestRead ==
    op = "import" /\ Called("readAsText") /\ (Ended \/ "VALIDATING" \in Range(tasks))
ManifestParsed == ManifestRead /\ workspaceManifest # NoFile /\ JsonParses(workspaceManifest)
HasItemsList(manifest) == HasKey(manifest, "archive") /\ HasKey(manifest.archive, "items")
ItemsOfType(manifest, type) ==
    SelectSeq(manifest.archive.items, LAMBDA it : HasKey(it, "objectType") /\ it.objectType = type)

\* C1: export and import of an empty object list end with InvalidRequestError,
\* emit no snapshot, and make no call at all on the file system, the packer
\* or a delegate (no createDir, unzip, readAsText, writeFile, zip, delegate).
C1_EmptyRequestDoesNoIO ==
    (op # "none" /\ Len(objects) = 0) =>
        /\ io = <<>>
        /\ createDir = "none"
        /\ delegates = <<>>
        /\ tasks = <<>>
        /\ workspaceManifest = NoFile
        /\ Ended => FailedWith("InvalidRequestError")
        /\ pc = "done" => Ended

C1_Witness ==
    /\ op = "import"
    /\ Len(objects) = 0
    /\ pc = "done"
    /\ FailedWith("InvalidRequestError")

\* C2: in import the workspace directory has been created (createDir has
\* resolved) whenever the container is being unpacked or the manifest is
\* being read.
C2_WorkspaceCreatedBeforeUnzip ==
    (op = "import" /\ pc \in {"unzip", "readAsText"}) => createDir = "resolved"

\* C3: the COMPLETE snapshot of import carries, for each requested type, the
\* terminal progress its import delegate reported (the applied items), never
\* the INITIALISING / pending entry that readManifestFile made.
C3_CompleteCarriesDelegateProgress ==
    (op = "import" /\ emitted.task = "COMPLETE" /\ AllHaveEmitted(delegates)) =>
        /\ emitted.progress = reduceObjectProgressToArchiveObjectImportProgress(Results(delegates))
        /\ \A i \in 1..Len(emitted.progress) : emitted.progress[i].value.task # "INITIALISING"

\* C4: every snapshot emitted for a non-empty request has a perType map whose
\* keys are exactly the requested types, each once.
C4_PerTypeKeysAreRequested ==
    (~IsUndefined(emitted)) =>
        /\ MapKeys(emitted.progress) = Requested
        /\ Len(emitted.progress) = Cardinality(Requested)

\* The pipeline has come to the per-type dispatch and ended: the workspace
\* exists and, in import, the manifest was validated.
DispatchEnded ==
    /\ pc = "done"
    /\ createDir = "resolved"
    /\ op = "import" => "VALIDATING" \in Range(tasks)

\* C5: a request that lists CONTENT or PROFILE and comes to the dispatch ends
\* with a NotSupported error that names an unsupported type of the request.
C5_NotSupportedNamesType ==
    (DispatchEnded /\ Requested \cap Unimplemented # {}) =>
        /\ FailedWith("NotSupportedError")
        /\ HasKey(terminal, "type")
        /\ terminal.type \in Requested \cap Unimplemented

\* C6: when the manifest was unpacked and parsed, has an items list, and some
\* requested type has no item of that type in it, import ends with
\* InvalidArchiveError 'Nothing to import', no VALIDATING, IMPORTING or
\* COMPLETE snapshot is emitted, and no import delegate is created or called.
C6_NothingToImport ==
    (/\ ManifestParsed
     /\ HasItemsList(JsonParse(workspaceManifest))
     /\ \E type \in Requested : ItemsOfType(JsonParse(workspaceManifest), type) = <<>>) =>
        /\ terminal = ErrorEvent("InvalidArchiveError", "Nothing to import")
        /\ Range(tasks) \cap {"VALIDATING", "IMPORTING", "COMPLETE"} = {}
        /\ ~Called("delegate.import")
        /\ delegates = <<>>

C6_Witness ==
    /\ ManifestParsed
    /\ Len(objects) = 2
    /\ HasItemsList(JsonParse(workspaceManifest))
    /\ ItemsOfType(JsonParse(workspaceManifest), objects[1]) # <<>>
    /\ ItemsOfType(JsonParse(workspaceManifest), objects[2]) = <<>>
    /\ FailedWith("InvalidArchiveError")

\* A manifest with every required field, on the manifest and on each item.
ManifestFields == {"id", "ver", "ts", "producer", "archive"}
ItemFields == {"objectType", "file", "contentEncoding", "size", "explodedSize"}
WellFormed(manifest) ==
    /\ ManifestFields \subseteq DOMAIN manifest
    /\ {"count", "items"} \subseteq DOMAIN manifest.archive
    /\ \A i \in 1..Len(manifest.archive.items) :
          ItemFields \subseteq DOMAIN manifest.archive.items[i]

\* C7: a manifest that parses but lacks a required field makes import end
\* with InvalidArchiveError, and nothing of it reaches an import delegate.
C7_MalformedManifestIsIntegrityError ==
    (ManifestParsed /\ ~WellFormed(JsonParse(workspaceManifest))) =>
        /\ FailedWith("InvalidArchiveError")
        /\ ~Called("delegate.import")

\* The manifest generateManifestFile has written in this export.
ManifestWritten == op = "export" /\ workspaceManifest # NoFile
WrittenArchive == JsonParse(workspaceManifest).archive

RECURSIVE CompletedOfAll(_)
CompletedOfAll(ds) ==
    IF ds = <<>> THEN <<>> ELSE ExportProgressOf(Head(ds)).completed \o CompletedOfAll(Tail(ds))

\* C8: the written manifest has count = number of items, and its items are
\* the completed items of the requested objects' delegates, concatenated in
\* request order, so that count is the number of items the delegates reported.
C8_ManifestListsAllCompleted ==
    ManifestWritten =>
        /\ WrittenArchive.count = Len(WrittenArchive.items)
        /\ WrittenArchive.items = CompletedOfAll(delegates)

\* The delegates report their completed items as {file, contentEncoding}.
PlainItems ==
    \A i \in 1..Len(delegates) : \A k \in 1..Len(delegates[i].items) :
        DOMAIN delegates[i].items[k] = {"file", "contentEncoding"}

\* C9: with delegates that report {file, contentEncoding}, every item of the
\* written manifest carries the objectType of the delegate that produced it,
\* and importing the container with the same types does not end with
\* 'Nothing to import'.
C9_ItemsCarryObjectType ==
    /\ (ManifestWritten /\ PlainItems) =>
          \A k \in 1..Len(WrittenArchive.items) :
              /\ HasKey(WrittenArchive.items[k], "objectType")
              /\ WrittenArchive.items[k].objectType \in Requested
    /\ (roundTrip /\ Failed) => terminal.message # "Nothing to import"

\* C10: an export stream of a non-empty request ends once: with COMPLETE as
\* its last snapshot followed by completion, or with one error and no
\* COMPLETE; nothing is delivered after the end; filePath is on the COMPLETE
\* snapshot and on no BUILDING or BUILDING_MANIFEST snapshot.
C10_State ==
    (op = "export" /\ Len(objects) > 0) =>
        /\ Cardinality({i \in 1..Len(tasks) : tasks[i] = "COMPLETE"}) <= 1
        /\ \A i \in 1..Len(tasks) : tasks[i] = "COMPLETE" => i = Len(tasks)
        /\ terminal = CompleteEvent <=> (tasks # <<>> /\ tasks[Len(tasks)] = "COMPLETE")
        /\ (pc = "done") <=> Ended
        /\ Range(tasks) \subseteq {"BUILDING", "BUILDING_MANIFEST", "COMPLETE"}
        /\ (~IsUndefined(emitted)) =>
              /\ emitted.task = tasks[Len(tasks)]
              /\ emitted.task = "COMPLETE" => (HasKey(emitted, "filePath") /\ emitted.filePath = zipFilePath)
              /\ emitted.task # "COMPLETE" => ~HasKey(emitted, "filePath")

C10_Step == (op = "export" /\ Ended /\ op' = "export") => UNCHANGED subscriber

C10_ExportEndsOnce == [][C10_Step]_vars /\ []C10_State

C10_Witness ==
    /\ op = "export"
    /\ terminal = CompleteEvent
    /\ tasks[Len(tasks)] = "COMPLETE"
    /\ Len(tasks) >= 3
    /\ emitted.filePath = zipFilePath

Count(s, x) == Cardinality({i \in 1..Len(s) : s[i] = x})
FailedAt(message) == Failed /\ terminal.message = message

\* C11: in export a failed step starts no later stage: after a createDir
\* failure no delegate was created; after a delegate failure there is no
\* buildContext, writeFile or zip call and no manifest; after a buildContext
\* failure no writeFile or zip call; after a writeFile failure no manifest and
\* no zip call; no snapshot of a later stage was emitted; and once the stream
\* has failed no further call is made and nothing more is written.
C11_State ==
    (op = "export" /\ Failed) =>
        /\ FailedAt("createDir failed") =>
              (delegates = <<>> /\ io = <<"createDir">> /\ tasks = <<>>)
        /\ FailedAt("delegate failed") =>
              /\ ~Called("buildContext") /\ ~Called("writeFile") /\ ~Called("zip")
              /\ workspaceManifest = NoFile
              /\ Range(tasks) \subseteq {"BUILDING"}
        /\ FailedAt("buildContext failed") =>
              /\ ~Called("writeFile") /\ ~Called("zip")
              /\ workspaceManifest = NoFile
              /\ Range(tasks) \subseteq {"BUILDING"}
        /\ FailedAt("writeFile failed") =>
              /\ ~Called("zip")
              /\ workspaceManifest = NoFile
              /\ Range(tasks) \subseteq {"BUILDING"}
        /\ FailedAt("zip failed") =>
              /\ Range(tasks) \subseteq {"BUILDING", "BUILDING_MANIFEST"}
              /\ container = NoFile

C11_Step ==
    (op = "export" /\ Failed /\ op' = "export") =>
        UNCHANGED <<io, workspaceManifest, container, subscriber>>

C11_ExportFailureStartsNothing == [][C11_Step]_vars /\ []C11_State

C11_Witness ==
    /\ op = "export"
    /\ FailedAt("buildContext failed")
    /\ Len(delegates) = 2
    /\ tasks # <<>>

\* C12: in export no delegate is created before createDir has resolved, the
\* manifest is written at most once and only after every requested object's
\* delegate stream has completed, and zip is called only after the manifest
\* file has been written.
C12_ExportStagesInOrder ==
    op = "export" =>
        /\ Called("delegate.export") => createDir = "resolved"
        /\ Count(io, "writeFile") <= 1
        /\ (Called("buildContext") \/ Called("writeFile")) =>
              /\ Len(delegates) = Len(objects)
              /\ \A i \in 1..Len(delegates) : delegates[i].state = "completed"
        /\ Called("zip") => (Called("writeFile") /\ workspaceManifest # NoFile)
        /\ workspaceManifest # NoFile => Called("writeFile")

C12_Witness ==
    /\ op = "export"
    /\ pc = "zip"
    /\ Len(delegates) = 2
    /\ Len(tasks) >= 3

\* C13: in import a failed unzip means the manifest is never read; a failed
\* unzip or manifest validation means no import delegate is created; after
\* any failure (unzip, manifest, createDir, a delegate) no COMPLETE snapshot
\* is emitted, the stream has ended with one error, and nothing follows it.
C13_State ==
    op = "import" =>
        /\ FailedAt("unzip failed") => (~Called("readAsText") /\ workspaceManifest = NoFile)
        /\ (FailedWith("ZipError") \/ FailedWith("InvalidArchiveError")
              \/ FailedAt("readAsText failed") \/ FailedAt("Cannot read property of undefined")) =>
              (~Called("delegate.import") /\ delegates = <<>>)
        /\ Failed => ("COMPLETE" \notin Range(tasks) /\ pc = "done")
        /\ createDir = "rejected" => "COMPLETE" \notin Range(tasks)
        /\ (\E i \in 1..Len(delegates) : delegates[i].state = "errored") =>
              (FailedAt("delegate failed") /\ "COMPLETE" \notin Range(tasks))

C13_Step ==
    (op = "import" /\ Failed /\ op' = "import") => UNCHANGED <<io, subscriber>>

C13_ImportFailureAborts == [][C13_Step]_vars /\ []C13_State

C13_Witness ==
    /\ op = "import"
    /\ FailedWith("InvalidArchiveError")
    /\ tasks = <<"EXTRACTING">>
    /\ createDir = "resolved"

\* C14: a requested type without a delegate fails the returned stream with a
\* terminal error event, as a delegate's own failure does: export and import
\* return an observable and never throw to the caller, the error is raised
\* only once the createDir promise has resolved, and a request with such a
\* type that comes to the dispatch ends with that error.
C14_NotSupportedIsStreamError ==
    /\ pc # "thrown"
    /\ (op # "none" /\ pc # "idle") => stream \in {"throwError", "concat"}
    /\ FailedAt("To be implemented") =>
          /\ Requested \cap Unimplemented # {}
          /\ createDir = "resolved"
          /\ Called("createDir")
          /\ pc = "done"
    /\ (DispatchEnded /\ Requested \cap Unimplemented # {}) =>
          (Failed /\ terminal.message \in {"To be implemented", "Cannot read property pending of undefined"})
    /\ FailedAt("delegate failed") => terminal.kind = "error"

C14_Witness ==
    /\ op = "import"
    /\ FailedAt("To be implemented")
    /\ "VALIDATING" \in Range(tasks)
    /\ Len(objects) = 2

\* C18: in import a delegate is created only after the manifest has been
\* validated (VALIDATING was emitted), and the items it is handed are the
\* manifest items whose objectType is the delegate's type, in manifest order,
\* and never an empty or missing list.
C18_DelegateGetsItemsOfItsType ==
    (op = "import" /\ Called("delegate.import")) =>
        /\ ManifestParsed
        /\ "VALIDATING" \in Range(tasks)
        /\ delegates # <<>>
        /\ \A i \in 1..Len(delegates) :
              /\ delegates[i].items = ItemsOfType(JsonParse(workspaceManifest), delegates[i].type)
              /\ delegates[i].items # <<>>

C18_Witness ==
    /\ op = "import"
    /\ pc = "fanout"
    /\ Len(delegates) = 2
    /\ Len(delegates[1].items) = 1
    /\ Len(JsonParse(workspaceManifest).archive.items) = 2

\* C16: in export a BUILDING snapshot is emitted only after the join: when
\* one has been emitted, every delegate stream has finished, or has at least
\* reported its last progress value (no delegate is still at an intermediate
\* progress value or has yet to report).
C16_BuildingOnlyAfterJoin ==
    (op = "export" /\ "BUILDING" \in Range(tasks)) =>
        \A i \in 1..Len(delegates) :
            \/ delegates[i].state = "completed"
            \/ delegates[i].has /\ delegates[i].n = Len(delegates[i].items)

\* C19: a request that lists an object type twice gives the aggregator two
\* reports for one type; the aggregator rejects such a list, so no BUILDING
\* or IMPORTING snapshot is ever built from it.
C19_DuplicateReportsRejected ==
    (op # "none" /\ Len(objects) # Cardinality(Requested)) =>
        Range(tasks) \cap {"BUILDING", "IMPORTING"} = {}

\* C15: in the fan-out of export and import the first delegate failure fails
\* the stream at once with that delegate's error, without waiting for the
\* siblings (they are unsubscribed, none is still listened to), and no
\* snapshot is delivered after it, whatever a sibling reports later.
C15_State ==
    (\E i \in 1..Len(delegates) : delegates[i].state = "errored") =>
        /\ FailedAt("delegate failed")
        /\ pc = "done"
        /\ \A j \in 1..Len(delegates) : delegates[j].state # "running"

C15_Step ==
    (\E i \in 1..Len(delegates) : delegates[i].state = "errored") => UNCHANGED subscriber

C15_FirstDelegateFailureFailsAll == [][C15_Step]_vars /\ []C15_State

C15_Witness ==
    /\ op = "import"
    /\ FailedAt("delegate failed")
    /\ "IMPORTING" \notin Range(tasks)
    /\ \E j \in 1..Len(delegates) :
          /\ delegates[j].state = "unsubscribed"
          /\ delegates[j].has
          /\ delegates[j].n = Len(delegates[j].items)

IsUnsubscribed == pc \in {Unsubscribed(stage) : stage \in Stages}

\* C17: once the subscriber has unsubscribed, the orchestrator starts no
\* later stage and delivers nothing more: no further call is made (no
\* delegate, buildContext, writeFile, zip, readAsText), no snapshot and no
\* terminal event follows, and no delegate stream is still listened to;
\* after an unsubscription during BUILDING there is no manifest and no
\* container, after one during extraction no manifest read and no delegate.
C17_State ==
    IsUnsubscribed =>
        /\ terminal = NoTerminal
        /\ \A j \in 1..Len(delegates) : delegates[j].state # "running"
        /\ (op = "export" /\ ~Called("buildContext")) =>
              (~Called("writeFile") /\ ~Called("zip")
                  /\ workspaceManifest = NoFile /\ container = NoFile)
        /\ (op = "import" /\ ~Called("readAsText")) =>
              (~Called("delegate.import") /\ delegates = <<>>
                  /\ Range(tasks) \cap {"VALIDATING", "IMPORTING", "COMPLETE"} = {})

C17_Step == IsUnsubscribed => (IsUnsubscribed' /\ UNCHANGED <<io, subscriber>>)

C17_UnsubscribeStopsStages == [][C17_Step]_vars /\ []C17_State

C17_Witness ==
    /\ op = "import"
    /\ pc = "unsubscribed"
    /\ io = <<"createDir", "unzip">>
    /\ workspaceManifest # NoFile
    /\ tasks = <<>>

Ends == {EndTransaction(TRUE), EndTransaction(FALSE)}

\* C20: delete(uid), every database operation of which emits once or fails:
\* the returned stream never ends with an error; it emits at most once, true
\* exactly when all eleven operations have succeeded and false exactly when
\* one of them has failed; beginTransaction is called once and before any of
\* the eleven operations; endTransaction is called at most once, as the last
\* call, with the flag that is emitted, and exactly once when the stream has
\* emitted or ended.
C20_DeleteCommitsWhatItEmits ==
    /\ handlerTerminal # "error"
    /\ Len(results) <= 1
    /\ results = <<TRUE>> <=> (deletes # <<>> /\ \A i \in 1..NumDeletes : deletes[i] = "emitted")
    /\ results = <<FALSE>> <=> (deletes # <<>> /\ \E i \in 1..NumDeletes : deletes[i] = "failed")
    /\ Count(db, "beginTransaction") <= 1
    /\ db # <<>> => db[1] = "beginTransaction"
    /\ Count(db, "delete") + Count(db, "execute") \in {0, NumDeletes}
    /\ Count(db, EndTransaction(TRUE)) + Count(db, EndTransaction(FALSE)) <= 1
    /\ \A k \in 1..Len(db) : db[k] \in Ends => k = Len(db)
    /\ \A b \in BOOLEAN : results = <<b>> <=> EndTransaction(b) \in Range(db)
    /\ handlerTerminal = "complete" => (Len(results) = 1 /\ db[Len(db)] \in Ends)

C20_Witness ==
    /\ results = <<FALSE>>
    /\ handlerTerminal = "complete"
    /\ deletes[NumDeletes] = "failed"
    /\ deletes[1] = "emitted"
    /\ deletes[2] = "unsubscribed"
    /\ db[Len(db)] = EndTransaction(FALSE)
====
